---- MODULE Spec2Model ----
(***************************************************************************)
(* Model of src/resources/vectors.rs: the two process-wide model caches,   *)
(* the lock-guarded model handles, and the four VectorHook operations      *)
(* (vectorize_text, vectorize_image, vectorize_fields,                     *)
(* vectorize_fields_batch) run by concurrent host threads, and on_ready,    *)
(* which sets the model cache directory once.                              *)
(*                                                                         *)
(* Strings and byte buffers are sequences of character codes.  A JSON      *)
(* value is a record [k, s, m]: k is the variant, s the characters of a    *)
(* string (or the encoder input an embedding array was computed from) and  *)
(* m the model kind that produced an embedding array.  A JSON object is a  *)
(* function from FieldNames to JSON values, JAbsent marking a missing key. *)
(* An embedding (Vec<f32>) is abstracted to the pair (model kind, input)   *)
(* that determines it.                                                     *)
(***************************************************************************)
EXTENDS Integers, Sequences, FiniteSets, TLC

\* ------------------------------------------------------------------ bounds
NThreads == 2
MaxCalls == 2
MaxRecs == 2
MaxMaps == 2

\* ------------------------------------------------------- strings and JSON
StrEmpty == << >>
StrA == <<97>>
StrYQ == <<89, 81, 61, 61>>

JAbsent == [k |-> "absent", s |-> << >>, m |-> ""]
JNull == [k |-> "null", s |-> << >>, m |-> ""]
JNum(n) == [k |-> "num", s |-> <<n>>, m |-> ""]
JStr(s) == [k |-> "str", s |-> s, m |-> ""]
JArr(e) == [k |-> "arr", s |-> e.of, m |-> e.model]

FieldNames == {"t", "v", "w"}

IsObject(rec) == DOMAIN rec = FieldNames

\* serde_json::Value::get(&str): None unless the value is an object holding the key
Get(rec, key) == IF IsObject(rec) /\ key \in FieldNames THEN rec[key] ELSE JAbsent

\* an insert that drops the other fields of the object
ObjInsertDropsRest(rec, key, val) ==
  IF IsObject(rec) THEN [f \in FieldNames |-> IF f = key THEN val ELSE JAbsent] ELSE rec

\* if let Some(obj) = record.as_object_mut() { obj.insert(target, value) }
ObjInsert(rec, key, val) == IF IsObject(rec) THEN [rec EXCEPT ![key] = val] ELSE rec

\* Value::as_str
IsStr(val) == val.k = "str"

\* ------------------------------------------------------ model name parsing
parse_text_model(name) ==
  IF name \in {"BAAI/bge-small-en-v1.5", "bge-small-en-v1.5"} THEN "BGESmallENV15"
  ELSE IF name \in {"BAAI/bge-base-en-v1.5", "bge-base-en-v1.5"} THEN "BGEBaseENV15"
  ELSE IF name \in {"BAAI/bge-large-en-v1.5", "bge-large-en-v1.5"} THEN "BGELargeENV15"
  ELSE IF name \in {"sentence-transformers/all-MiniLM-L6-v2", "all-MiniLM-L6-v2"}
       THEN "AllMiniLML6V2"
  ELSE "BGESmallENV15"

parse_image_model(name) ==
  IF name \in {"clip-ViT-B-32", "CLIP-ViT-B-32", "clip-vit-b-32"} THEN "ClipVitB32"
  ELSE "ClipVitB32"

\* ------------------------------------------------------------------ Base64
\* value of one character of the standard alphabet, -1 for any other character
B64Val(c) ==
  IF c \in 65..90 THEN c - 65
  ELSE IF c \in 97..122 THEN c - 71
  ELSE IF c \in 48..57 THEN c + 4
  ELSE IF c = 43 THEN 62
  ELSE IF c = 47 THEN 63
  ELSE -1

B64Pad == 61

\* the bytes of one 4-character group; ok is FALSE for an invalid group
B64Group(g, last) ==
  LET v1 == B64Val(g[1])
      v2 == B64Val(g[2])
      v3 == B64Val(g[3])
      v4 == B64Val(g[4])
  IN  IF v1 < 0 \/ v2 < 0 THEN [ok |-> FALSE, bytes |-> << >>]
      ELSE IF last /\ g[3] = B64Pad /\ g[4] = B64Pad
           THEN [ok |-> v2 % 16 = 0, bytes |-> <<v1 * 4 + v2 \div 16>>]
      ELSE IF v3 < 0 THEN [ok |-> FALSE, bytes |-> << >>]
      ELSE IF last /\ g[4] = B64Pad
           THEN [ok |-> v3 % 4 = 0,
                 bytes |-> <<v1 * 4 + v2 \div 16, (v2 % 16) * 16 + v3 \div 4>>]
      ELSE IF v4 < 0 THEN [ok |-> FALSE, bytes |-> << >>]
      ELSE [ok |-> TRUE,
            bytes |-> <<v1 * 4 + v2 \div 16, (v2 % 16) * 16 + v3 \div 4,
                        (v3 % 4) * 64 + v4>>]

RECURSIVE B64Groups(_)
B64Groups(s) ==
  IF Len(s) = 0 THEN [ok |-> TRUE, bytes |-> << >>]
  ELSE LET g == B64Group(SubSeq(s, 1, 4), Len(s) = 4)
           r == B64Groups(SubSeq(s, 5, Len(s)))
       IN  [ok |-> g.ok /\ r.ok, bytes |-> g.bytes \o r.bytes]

\* base64::Engine::decode(&STANDARD, s): padded, canonical
Base64Decode(s) ==
  IF Len(s) % 4 # 0 THEN [ok |-> FALSE, bytes |-> << >>]
  ELSE LET r == B64Groups(s)
       IN  IF r.ok THEN r ELSE [ok |-> FALSE, bytes |-> << >>]

\* --------------------------------------------------------------- encoders
\* one embedding of the encoder of the given kind
Embedding(kind, input) == [model |-> kind, of |-> input]

\* TextEmbedding::embed(texts): one embedding per text, in order
EmbedAll(kind, inputs) == [i \in 1..Len(inputs) |-> Embedding(kind, inputs[i])]

\* ------------------------------------------------------------------ state
VARIABLES
  models_dir,    \* the OnceLock<PathBuf> DIR: "" while unset
  text_models,   \* the text cache: model name -> handle, NoHandle when absent
  image_models,  \* the image cache
  built,         \* per cache and model name, how many handles were constructed
  handles,       \* every Arc<Mutex<model>> constructed: kind, lock holder, poison
  th,            \* per host thread: the call it is in, that call's locals, and
                 \* (encodes) how often its batching step has called embed, per model
  calls          \* how many calls the host has made so far

vars == <<models_dir, text_models, image_models, built, handles, th, calls>>

ModelNames == {"bge-small-en-v1.5", "clip-ViT-B-32"}
Caches == {"text", "image"}

NoHandle == <<"none", "", 0>>
NoThread == 0
NoEmbedding == [model |-> "", of |-> << >>]
DefaultDir == ".fastembed_cache"

\* get_models_dir(): the configured path, else the default relative path
get_models_dir(dir) == IF dir = "" THEN DefaultDir ELSE dir

\* PathBuf::from(root).join(name) for a relative name
PathJoin(root, name) == IF root = "" THEN name ELSE root \o "/" \o name

\* a cell that takes every value it is given
OnceSetOverwrites(cell, value) == value

\* OnceLock::set(value): stores the value if the cell is empty, else leaves the
\* cell alone and hands the value back as Err, which `let _ =` drops
OnceSet(cell, value) == IF cell = "" THEN value ELSE cell

Ok(e) == [tag |-> "Ok", msg |-> "", about |-> "", emb |-> e]
Err(msg, about) == [tag |-> "Err", msg |-> msg, about |-> about, emb |-> NoEmbedding]
Panicked == [tag |-> "panic", msg |-> "", about |-> "", emb |-> NoEmbedding]
NoResult == [tag |-> "none", msg |-> "", about |-> "", emb |-> NoEmbedding]

IdleThread ==
  [op |-> "idle", pc |-> "idle", fn |-> "", model |-> "", input |-> << >>,
   texts |-> << >>, embeddings |-> << >>, arc |-> NoHandle, record |-> JNull, records |-> << >>,
   mappings |-> << >>, mi |-> 0, ri |-> 0, arg |-> << >>, result |-> NoResult,
   encodes |-> [n \in ModelNames |-> 0]]

Init ==
  /\ models_dir = ""
  /\ text_models = [n \in ModelNames |-> NoHandle]
  /\ image_models = [n \in ModelNames |-> NoHandle]
  /\ built = [c \in Caches |-> [n \in ModelNames |-> 0]]
  /\ handles = [h \in {} |-> 0]
  /\ th = [t \in 1..NThreads |-> IdleThread]
  /\ calls = 0

\* the locals of a finished vectorize_text / vectorize_image / get_or_init frame
DropFrame(s) ==
  [s EXCEPT !.fn = "", !.model = "", !.input = << >>, !.texts = << >>,
            !.embeddings = << >>, !.arc = NoHandle]

\* the top-level call returns res to the host
Finish(s, res) == [DropFrame(s) EXCEPT !.pc = "done", !.result = res]

\* which cache the frame's get_or_init works on
CacheOf(s) == IF s.fn = "vectorize_image" THEN "image" ELSE "text"

PoisonMsg(s) == IF s.fn = "vectorize_image" THEN "Image model mutex poisoned"
                ELSE "Text model mutex poisoned"

EmbedFailedMsg(s) == IF s.fn = "vectorize_image" THEN "Image embedding failed"
                     ELSE IF s.fn = "batch" THEN "Batch text embedding failed"
                     ELSE "Text embedding failed"

EmptyResultMsg(s) == IF s.fn = "vectorize_image" THEN "Image embedding returned empty result"
                     ELSE "Text embedding returned empty result"

\* a vectorize_fields that drops the error of a mapping and goes on
SubReturnSwallows(s, res) ==
  IF s.op \in {"vectorize_text", "vectorize_image"} THEN Finish(s, res)
  ELSE IF s.op = "vectorize_fields"
  THEN [DropFrame(s) EXCEPT
          !.record = IF res.tag = "Ok"
                     THEN ObjInsert(@, s.mappings[s.mi].target, JArr(res.emb)) ELSE @,
          !.mi = @ + 1, !.pc = "map"]
  ELSE [DropFrame(s) EXCEPT
          !.records[s.ri] = IF res.tag = "Ok"
                            THEN ObjInsert(@, s.mappings[s.mi].target, JArr(res.emb))
                            ELSE @,
          !.ri = @ + 1, !.pc = "rec"]

\* vectorize_text / vectorize_image returns res to its caller: the host, the
\* mapping loop of vectorize_fields (`?` then the write of the target field), or
\* the per-record fallback of vectorize_fields_batch (`if let Ok(embedding)`)
SubReturn(s, res) ==
  IF s.op \in {"vectorize_text", "vectorize_image"} THEN Finish(s, res)
  ELSE IF s.op = "vectorize_fields"
  THEN IF res.tag = "Ok"
       THEN [DropFrame(s) EXCEPT
               !.record = ObjInsert(@, s.mappings[s.mi].target, JArr(res.emb)),
               !.mi = @ + 1, !.pc = "map"]
       ELSE Finish(s, res)
  ELSE [DropFrame(s) EXCEPT
          !.records[s.ri] = IF res.tag = "Ok"
                            THEN ObjInsert(@, s.mappings[s.mi].target, JArr(res.emb))
                            ELSE @,
          !.ri = @ + 1, !.pc = "rec"]

\* an error leaves the frame that runs get_or_init / lock / embed: through
\* vectorize_text / vectorize_image, or by `?` out of vectorize_fields_batch
FrameError(s, res) == IF s.fn = "batch" THEN Finish(s, res) ELSE SubReturn(s, res)

\* ------------------------------------------------------------- host calls
\* a thread that has just entered the operation with the given arguments
StartText(text, model) ==
  [IdleThread EXCEPT !.op = "vectorize_text", !.fn = "vectorize_text",
                     !.input = text, !.model = model, !.pc = "get"]

StartImage(bytes, model) ==
  [IdleThread EXCEPT !.op = "vectorize_image", !.fn = "vectorize_image",
                     !.input = bytes, !.model = model, !.pc = "get"]

StartFields(record, mappings) ==
  [IdleThread EXCEPT !.op = "vectorize_fields", !.record = record, !.arg = <<record>>,
                     !.mappings = mappings, !.mi = 1, !.pc = "map"]

StartBatch(records, mappings) ==
  [IdleThread EXCEPT !.op = "vectorize_fields_batch", !.records = records,
                     !.arg = records, !.mappings = mappings, !.mi = 1, !.pc = "map"]

\* the host invokes one of the four operations on a thread that is in no call
CallText(t, U) ==
  /\ th[t].pc \in {"idle", "done"}
  /\ calls < MaxCalls
  /\ calls' = calls + 1
  /\ \E text \in U.texts, model \in U.text_names :
       th' = [th EXCEPT ![t] = StartText(text, model)]
  /\ UNCHANGED <<models_dir, text_models, image_models, built, handles>>

CallImage(t, U) ==
  /\ th[t].pc \in {"idle", "done"}
  /\ calls < MaxCalls
  /\ calls' = calls + 1
  /\ \E bytes \in U.bytes, model \in U.image_names :
       th' = [th EXCEPT ![t] = StartImage(bytes, model)]
  /\ UNCHANGED <<models_dir, text_models, image_models, built, handles>>

CallFields(t, U) ==
  /\ th[t].pc \in {"idle", "done"}
  /\ calls < MaxCalls
  /\ calls' = calls + 1
  /\ \E record \in U.records, mappings \in U.mappings :
       th' = [th EXCEPT ![t] = StartFields(record, mappings)]
  /\ UNCHANGED <<models_dir, text_models, image_models, built, handles>>

CallBatch(t, U) ==
  /\ th[t].pc \in {"idle", "done"}
  /\ calls < MaxCalls
  /\ calls' = calls + 1
  /\ \E records \in U.batches, mappings \in U.mappings :
       th' = [th EXCEPT ![t] = StartBatch(records, mappings)]
  /\ UNCHANGED <<models_dir, text_models, image_models, built, handles>>

\* ---------------------------------------------------------------- on_ready
\* the host calls on_ready with a context whose root_dir is root
StartOnReady(root) == [IdleThread EXCEPT !.op = "on_ready", !.arg = <<root>>, !.pc = "set"]

CallOnReady(t, U) ==
  /\ th[t].pc \in {"idle", "done"}
  /\ calls < MaxCalls
  /\ calls' = calls + 1
  /\ \E root \in U.roots : th' = [th EXCEPT ![t] = StartOnReady(root)]
  /\ UNCHANGED <<models_dir, text_models, image_models, built, handles>>

\* let dir = root.join("models"); let _ = models_dir().set(dir); Ok(())
OnReady(t) ==
  /\ th[t].pc = "set"
  /\ models_dir' = OnceSet(models_dir, PathJoin(th[t].arg[1], "models"))
  /\ th' = [th EXCEPT ![t] = Finish(th[t], Ok(NoEmbedding))]
  /\ UNCHANGED <<text_models, image_models, built, handles, calls>>

\* ------------------------------------------------------------ get_or_init
TheCache(c) == IF c = "image" THEN image_models ELSE text_models

\* get_or_init_*_model, the lookup: on a hit the caller has the cached Arc
LookupHit(s, h) == [s EXCEPT !.arc = h, !.pc = "lock"]

LookupMiss(s) == [s EXCEPT !.pc = "init"]

Lookup(t) ==
  /\ th[t].pc = "get"
  /\ LET s == th[t]
         h == TheCache(CacheOf(s))[s.model]
     IN  th' = [th EXCEPT ![t] = IF h # NoHandle THEN LookupHit(s, h) ELSE LookupMiss(s)]
  /\ UNCHANGED <<models_dir, text_models, image_models, built, handles, calls>>

\* the handle a successful try_new + Arc::new(Mutex::new(model)) creates
NewHandle(c, name, n, dir) ==
  [kind |-> IF c = "image" THEN parse_image_model(name) ELSE parse_text_model(name),
   cache_dir |-> get_models_dir(dir), holder |-> NoThread, poisoned |-> FALSE]

\* an insert into a map that keeps one entry only
CacheInsertKeepsOne(cache, name, h) ==
  [n \in DOMAIN cache |-> IF n = name THEN h ELSE NoHandle]

\* DashMap::insert(model_name, arc.clone()): the entry now holds the new Arc
CacheInsert(cache, name, h) == [cache EXCEPT ![name] = h]

\* get_or_init_*_model after a miss: try_new succeeds, the Arc is inserted and returned
ConstructOk(t) ==
  /\ th[t].pc = "init"
  /\ LET s == th[t]
         c == CacheOf(s)
         n == built[c][s.model] + 1
         h == <<c, s.model, n>>
     IN  /\ built' = [built EXCEPT ![c][s.model] = n]
         /\ handles' = (h :> NewHandle(c, s.model, n, models_dir)) @@ handles
         /\ text_models' = IF c = "text" THEN CacheInsert(text_models, s.model, h)
                           ELSE text_models
         /\ image_models' = IF c = "image" THEN CacheInsert(image_models, s.model, h)
                            ELSE image_models
         /\ th' = [th EXCEPT ![t] = [s EXCEPT !.arc = h, !.pc = "lock"]]
  /\ UNCHANGED <<models_dir, calls>>

\* a failed try_new that evicts what the cache held
FailedInsertEvicts(cache, name) == [n \in DOMAIN cache |-> NoHandle]

\* what a failed try_new leaves in the cache: nothing is inserted
FailedInsert(cache, name) == cache

\* get_or_init_*_model after a miss: try_new fails, `?` returns the error
ConstructFail(t) ==
  /\ th[t].pc = "init"
  /\ LET s == th[t]
         msg == IF CacheOf(s) = "image" THEN "Failed to init image model"
                ELSE "Failed to init text model"
     IN  /\ th' = [th EXCEPT ![t] = FrameError(s, Err(msg, s.model))]
         /\ text_models' = IF CacheOf(s) = "text" THEN FailedInsert(text_models, s.model)
                           ELSE text_models
         /\ image_models' = IF CacheOf(s) = "image" THEN FailedInsert(image_models, s.model)
                            ELSE image_models
  /\ UNCHANGED <<models_dir, built, handles, calls>>

\* ------------------------------------------------------------- the mutex
\* a lock that never waits for the holder
CanLockAlways(h) == TRUE

\* one lock shared by every handle
CanLockWhenAllFree(h) == \A g \in DOMAIN handles : handles[g].holder = NoThread

\* Mutex::lock blocks while another guard is alive
CanLock(h) == handles[h].holder = NoThread

\* model_arc.lock(): Ok(guard)
LockOk(t) ==
  /\ th[t].pc = "lock"
  /\ CanLock(th[t].arc)
  /\ ~handles[th[t].arc].poisoned
  /\ handles' = [handles EXCEPT ![th[t].arc].holder = t]
  /\ th' = [th EXCEPT ![t].pc = "embed"]
  /\ UNCHANGED <<models_dir, text_models, image_models, built, calls>>

\* model_arc.lock(): Err(PoisonError), mapped to a message and returned by `?`;
\* the guard inside the PoisonError is dropped with it
LockPoisoned(t) ==
  /\ th[t].pc = "lock"
  /\ CanLock(th[t].arc)
  /\ handles[th[t].arc].poisoned
  /\ th' = [th EXCEPT ![t] = FrameError(th[t], Err(PoisonMsg(th[t]), ""))]
  /\ UNCHANGED <<models_dir, text_models, image_models, built, handles, calls>>

\* ------------------------------------------------------------ the encoder
\* what model_guard.embed / embed_bytes may return for the inputs: one embedding
\* per input in order, no embedding at all, or an error
EncoderResults(kind, inputs) ==
  { [tag |-> "Ok", embs |-> EmbedAll(kind, inputs)],
    [tag |-> "Ok", embs |-> << >>],
    [tag |-> "Err", embs |-> << >>] }

Min(a, b) == IF a < b THEN a ELSE b

\* a scatter that writes the k-th embedding to the k-th record
RECURSIVE ScatterByPosition(_, _, _, _)
ScatterByPosition(records, texts, embeddings, target) ==
  IF Len(embeddings) = 0 \/ Len(texts) = 0 THEN records
  ELSE LET k == Min(Len(texts), Len(embeddings))
           rest == ScatterByPosition(records, SubSeq(texts, 1, k - 1),
                                     SubSeq(embeddings, 1, k - 1), target)
       IN  [rest EXCEPT ![k] = ObjInsert(@, target, JArr(embeddings[k]))]

\* for ((idx, _), embedding) in texts.iter().zip(embeddings): records[idx].insert(target, ..)
RECURSIVE ScatterFrom(_, _, _, _, _)
ScatterFrom(records, texts, embeddings, target, k) ==
  IF k > Min(Len(texts), Len(embeddings)) THEN records
  ELSE ScatterFrom([records EXCEPT ![texts[k][1]] = ObjInsert(@, target, JArr(embeddings[k]))],
                   texts, embeddings, target, k + 1)

Scatter(records, texts, embeddings, target) ==
  ScatterFrom(records, texts, embeddings, target, 1)

\* texts.iter().map(|(_, t)| t.clone()).collect()
TextStrings(texts) == [k \in 1..Len(texts) |-> texts[k][2]]

\* the rest of the frame once embed / embed_bytes has returned r: `?` on an
\* error; embeddings.into_iter().next().ok_or_else(..) in vectorize_text /
\* vectorize_image; in vectorize_fields_batch the embeddings await the scatter
AfterEmbed(s, r) ==
  IF r.tag = "Err" THEN FrameError(s, Err(EmbedFailedMsg(s), ""))
  ELSE IF s.fn = "batch" THEN [s EXCEPT !.embeddings = r.embs, !.pc = "scatter"]
  ELSE IF Len(r.embs) = 0 THEN SubReturn(s, Err(EmptyResultMsg(s), ""))
  ELSE SubReturn(s, Ok(Head(r.embs)))

\* a guard whose drop leaves the mutex locked
UnlockNever(hs, h) == hs

\* dropping the MutexGuard
Unlock(hs, h) == [hs EXCEPT ![h].holder = NoThread]

\* a guard that an error return leaves alive
GuardDroppedOnOk(s, r) == r.tag # "Err" /\ s.fn # "batch"

\* whether the guard is dropped once embed has returned r: it lives on through
\* the scatter of vectorize_fields_batch
GuardDropped(s, r) == r.tag = "Err" \/ s.fn # "batch"

\* model_guard.embed(text_strings, None) of the batching step is entered
Counted(s) == IF s.fn = "batch" THEN [s EXCEPT !.encodes[s.model] = @ + 1] ELSE s

\* the encoder call under the guard, the use of its result, and the guard's drop
\* at the end of vectorize_text / vectorize_image or at the `?` of an error
Embed(t) ==
  /\ th[t].pc = "embed"
  /\ LET s == th[t]
         inputs == IF s.fn = "batch" THEN TextStrings(s.texts) ELSE <<s.input>>
     IN  \E r \in EncoderResults(handles[s.arc].kind, inputs) :
           /\ th' = [th EXCEPT ![t] = AfterEmbed(Counted(s), r)]
           /\ handles' = IF GuardDropped(s, r) THEN Unlock(handles, s.arc) ELSE handles
  /\ UNCHANGED <<models_dir, text_models, image_models, built, calls>>

\* vectorize_fields_batch assigns the embeddings back to the records; the guard
\* is dropped at the end of the loop body
AfterScatter(s) ==
  [DropFrame(s) EXCEPT
     !.records = Scatter(@, s.texts, s.embeddings, s.mappings[s.mi].target),
     !.mi = @ + 1, !.pc = "map"]

ScatterStep(t) ==
  /\ th[t].pc = "scatter"
  /\ th' = [th EXCEPT ![t] = AfterScatter(th[t])]
  /\ handles' = Unlock(handles, th[t].arc)
  /\ UNCHANGED <<models_dir, text_models, image_models, built, calls>>

\* the encoder panics under the guard: the unwinding drop of the guard poisons
\* the mutex and the call never returns a value
EmbedPanic(t) ==
  /\ th[t].pc = "embed"
  /\ handles' = [Unlock(handles, th[t].arc) EXCEPT ![th[t].arc].poisoned = TRUE]
  /\ th' = [th EXCEPT ![t] = Finish(Counted(th[t]), Panicked)]
  /\ UNCHANGED <<models_dir, text_models, image_models, built, calls>>

\* -------------------------------------------------------- vectorize_fields
\* a mapping loop without the is_null check: null reaches the type checks
FieldsMappingNullChecked(s) ==
  LET m == s.mappings[s.mi]
      source_val == Get(s.record, m.source)
  IN  IF source_val.k = "absent" THEN [s EXCEPT !.mi = @ + 1]
      ELSE IF m.field_type = "image"
      THEN IF ~IsStr(source_val)
           THEN Finish(s, Err("Image field must be a base64 string", m.source))
           ELSE LET d == Base64Decode(source_val.s)
                IN  IF ~d.ok THEN Finish(s, Err("Failed to decode base64 from", m.source))
                    ELSE [s EXCEPT !.fn = "vectorize_image", !.input = d.bytes,
                                   !.model = m.model, !.pc = "get"]
      ELSE IF ~IsStr(source_val)
           THEN Finish(s, Err("Text field must be a string", m.source))
           ELSE IF source_val.s = StrEmpty THEN [s EXCEPT !.mi = @ + 1]
           ELSE [s EXCEPT !.fn = "vectorize_text", !.input = source_val.s,
                          !.model = m.model, !.pc = "get"]

\* one iteration of `for mapping in mappings` up to the call of vectorize_image /
\* vectorize_text (or the `continue`, or the `?` of an input-shape error)
FieldsMapping(s) ==
  LET m == s.mappings[s.mi]
      source_val == Get(s.record, m.source)
  IN  IF source_val.k = "absent" THEN [s EXCEPT !.mi = @ + 1]
      ELSE IF source_val.k = "null" THEN [s EXCEPT !.mi = @ + 1]
      ELSE IF m.field_type = "image"
      THEN IF ~IsStr(source_val)
           THEN Finish(s, Err("Image field must be a base64 string", m.source))
           ELSE LET d == Base64Decode(source_val.s)
                IN  IF ~d.ok THEN Finish(s, Err("Failed to decode base64 from", m.source))
                    ELSE [s EXCEPT !.fn = "vectorize_image", !.input = d.bytes,
                                   !.model = m.model, !.pc = "get"]
      ELSE IF ~IsStr(source_val)
           THEN Finish(s, Err("Text field must be a string", m.source))
           ELSE IF source_val.s = StrEmpty THEN [s EXCEPT !.mi = @ + 1]
           ELSE [s EXCEPT !.fn = "vectorize_text", !.input = source_val.s,
                          !.model = m.model, !.pc = "get"]

FieldsStep(t) ==
  /\ th[t].op = "vectorize_fields"
  /\ th[t].pc = "map"
  /\ th[t].mi <= Len(th[t].mappings)
  /\ th' = [th EXCEPT ![t] = FieldsMapping(th[t])]
  /\ UNCHANGED <<models_dir, text_models, image_models, built, handles, calls>>

\* Ok(record) after the loop
FieldsReturn(t) ==
  /\ th[t].op = "vectorize_fields"
  /\ th[t].pc = "map"
  /\ th[t].mi > Len(th[t].mappings)
  /\ th' = [th EXCEPT ![t] = Finish(th[t], Ok(NoEmbedding))]
  /\ UNCHANGED <<models_dir, text_models, image_models, built, handles, calls>>

\* -------------------------------------------------- vectorize_fields_batch
\* a batch that never falls back to per-record handling
IsFallbackNever(m) == FALSE

\* mapping.field_type != "text" && !mapping.field_type.is_empty()
IsFallback(m) == m.field_type # "text" /\ m.field_type # ""

\* the (index, text) pairs of the records whose source is a non-empty string
RECURSIVE CollectFrom(_, _, _)
CollectFrom(records, source, i) ==
  IF i > Len(records) THEN << >>
  ELSE LET val == Get(records[i], source)
       IN  (IF IsStr(val) /\ val.s # StrEmpty THEN << <<i, val.s>> >> ELSE << >>)
           \o CollectFrom(records, source, i + 1)

\* a collect loop without the `!text.is_empty()` check
RECURSIVE CollectStringsFrom(_, _, _)
CollectStringsFrom(records, source, i) ==
  IF i > Len(records) THEN << >>
  ELSE LET val == Get(records[i], source)
       IN  (IF IsStr(val) THEN << <<i, val.s>> >> ELSE << >>)
           \o CollectStringsFrom(records, source, i + 1)

CollectAllStrings(records, source) == CollectStringsFrom(records, source, 1)

Collect(records, source) == CollectFrom(records, source, 1)

\* a text mapping that asks for the model even when it has collected no text
BatchMappingEager(s) ==
  LET m == s.mappings[s.mi]
      texts == Collect(s.records, m.source)
  IN  IF IsFallback(m) THEN [s EXCEPT !.ri = 1, !.pc = "rec"]
      ELSE [s EXCEPT !.fn = "batch", !.texts = texts, !.model = m.model, !.pc = "get"]

\* one iteration of `for mapping in mappings` up to get_or_init_text_model, the
\* entry of the per-record fallback loop, or the `continue` on no texts
BatchMapping(s) ==
  LET m == s.mappings[s.mi]
      texts == Collect(s.records, m.source)
  IN  IF IsFallback(m) THEN [s EXCEPT !.ri = 1, !.pc = "rec"]
      ELSE IF Len(texts) = 0 THEN [s EXCEPT !.mi = @ + 1]
      ELSE [s EXCEPT !.fn = "batch", !.texts = texts, !.model = m.model, !.pc = "get"]

BatchStep(t) ==
  /\ th[t].op = "vectorize_fields_batch"
  /\ th[t].pc = "map"
  /\ th[t].mi <= Len(th[t].mappings)
  /\ th' = [th EXCEPT ![t] = BatchMapping(th[t])]
  /\ UNCHANGED <<models_dir, text_models, image_models, built, handles, calls>>

\* one iteration of the fallback's `for record in &mut records` up to the call
\* of vectorize_text, and the `continue` after its last record
FallbackRecord(s) ==
  IF s.ri > Len(s.records) THEN [s EXCEPT !.ri = 0, !.mi = @ + 1, !.pc = "map"]
  ELSE LET m == s.mappings[s.mi]
           src == Get(s.records[s.ri], m.source)
       IN  IF IsStr(src) /\ src.s # StrEmpty
           THEN [s EXCEPT !.fn = "vectorize_text", !.input = src.s,
                          !.model = m.model, !.pc = "get"]
           ELSE [s EXCEPT !.ri = @ + 1]

FallbackStep(t) ==
  /\ th[t].op = "vectorize_fields_batch"
  /\ th[t].pc = "rec"
  /\ th' = [th EXCEPT ![t] = FallbackRecord(th[t])]
  /\ UNCHANGED <<models_dir, text_models, image_models, built, handles, calls>>

\* Ok(records) after the loop
BatchReturn(t) ==
  /\ th[t].op = "vectorize_fields_batch"
  /\ th[t].pc = "map"
  /\ th[t].mi > Len(th[t].mappings)
  /\ th' = [th EXCEPT ![t] = Finish(th[t], Ok(NoEmbedding))]
  /\ UNCHANGED <<models_dir, text_models, image_models, built, handles, calls>>

\* ------------------------------------------------- inputs the host passes
Mapping(source, target, field_type, model) ==
  [source |-> source, target |-> target, field_type |-> field_type, model |-> model]

Object(t, v, w) == [t |-> t, v |-> v, w |-> w]

TextMapping == Mapping("t", "v", "text", "clip-ViT-B-32")
ImageMapping == Mapping("t", "v", "image", "clip-ViT-B-32")

\* the calls of the concurrent specification: few inputs, every operation
RaceInputs ==
  [texts |-> {StrA},
   bytes |-> {<<97>>},
   text_names |-> ModelNames,
   image_names |-> {"clip-ViT-B-32"},
   roots |-> {"/srv/a", "/srv/b"},
   records |-> {Object(JStr(StrYQ), JAbsent, JAbsent)},
   batches |-> {<<Object(JStr(StrYQ), JAbsent, JAbsent)>>},
   mappings |-> {<<TextMapping>>, <<ImageMapping>>}]

Next ==
  \E t \in DOMAIN th :
    \/ CallText(t, RaceInputs)
    \/ CallImage(t, RaceInputs)
    \/ CallFields(t, RaceInputs)
    \/ CallBatch(t, RaceInputs)
    \/ CallOnReady(t, RaceInputs)
    \/ OnReady(t)
    \/ Lookup(t)
    \/ ConstructOk(t)
    \/ ConstructFail(t)
    \/ LockOk(t)
    \/ LockPoisoned(t)
    \/ Embed(t)
    \/ EmbedPanic(t)
    \/ ScatterStep(t)
    \/ FieldsStep(t)
    \/ FieldsReturn(t)
    \/ BatchStep(t)
    \/ FallbackStep(t)
    \/ BatchReturn(t)

Spec == Init /\ [][Next]_vars

\* ---------------------------------------------------- fair scheduling
\* the steps thread t takes inside a call, lock acquisition apart
Step(t) ==
  \/ OnReady(t)
  \/ Lookup(t)
  \/ ConstructOk(t)
  \/ ConstructFail(t)
  \/ Embed(t)
  \/ EmbedPanic(t)
  \/ ScatterStep(t)
  \/ FieldsStep(t)
  \/ FieldsReturn(t)
  \/ BatchStep(t)
  \/ FallbackStep(t)
  \/ BatchReturn(t)

\* model_arc.lock() returns, with the guard or with the PoisonError
Acquire(t) == LockOk(t) \/ LockPoisoned(t)

\* every thread inside a call keeps running (try_new and embed terminate), and
\* a thread that can acquire its lock again and again does acquire it
SpecFair ==
  /\ Init
  /\ [][Next]_vars
  /\ \A t \in 1..NThreads : WF_vars(Step(t)) /\ SF_vars(Acquire(t))

\* ------------------------------------ one call on rich inputs, one thread
\* all sequences over S of length 0..n
SeqsUpTo(S, n) == UNION { [1..k -> S] : k \in 0..n }

SourceValues == {JAbsent, JNull, JNum(7), JStr(StrEmpty), JStr(StrA), JStr(StrYQ)}

\* records for vectorize_fields: every source value, the target unset or preset,
\* and a JSON value that is no object
FieldsRecords ==
  { Object(t, v, JAbsent) : t \in SourceValues, v \in {JAbsent, JNum(7)} } \cup {JStr(StrA)}

BatchRecords ==
  { Object(JAbsent, JAbsent, JAbsent), Object(JNull, JNum(7), JAbsent),
    Object(JStr(StrEmpty), JAbsent, JAbsent), Object(JStr(StrA), JAbsent, JAbsent),
    Object(JStr(StrYQ), JNum(7), JAbsent), Object(JNum(7), JAbsent, JAbsent) }

MappingUniverse ==
  { Mapping("t", "v", "text", "bge-small-en-v1.5"),
    Mapping("t", "w", "", "bge-small-en-v1.5"),
    Mapping("t", "v", "image", "clip-ViT-B-32"),
    Mapping("v", "w", "text", "clip-ViT-B-32") }

MappingLists == SeqsUpTo(MappingUniverse, MaxMaps)

\* the host's first call is any vectorize_fields or vectorize_fields_batch call
InitSeq ==
  /\ models_dir = ""
  /\ text_models = [n \in ModelNames |-> NoHandle]
  /\ image_models = [n \in ModelNames |-> NoHandle]
  /\ built = [c \in Caches |-> [n \in ModelNames |-> 0]]
  /\ handles = [h \in {} |-> 0]
  /\ \E s \in { StartFields(r, ms) : r \in FieldsRecords, ms \in MappingLists }
             \cup { StartBatch(rs, ms) : rs \in SeqsUpTo(BatchRecords, MaxRecs),
                                         ms \in MappingLists } :
       th = [t \in {1} |-> s]
  /\ calls = 1

SpecSeq == InitSeq /\ [][Next]_vars

\* ================================================================ claims
\* a thread whose get_or_init has returned Ok(arc)
HasHandle(t) == th[t].arc # NoHandle

InitFailedMsg(c) == IF c = "image" THEN "Failed to init image model"
                    ELSE "Failed to init text model"

\* C1: for each cache and model identifier at most one handle is ever
\* constructed, and every caller of get_or_init holds the handle the cache holds.
C1_OneHandlePerIdentifier ==
  /\ \A c \in Caches, n \in ModelNames : built[c][n] <= 1
  /\ \A t \in DOMAIN th :
       HasHandle(t) => th[t].arc = TheCache(CacheOf(th[t]))[th[t].model]

\* C2: once a handle for an identifier has been constructed and inserted, every
\* get_or_init for that identifier returns that first handle.
C2_SameInstanceAfterFirstInit ==
  \A t \in DOMAIN th :
    HasHandle(t) => th[t].arc = <<CacheOf(th[t]), th[t].model, 1>>

\* C3: at most one thread is inside the encoder of a given handle, it holds that
\* handle's lock, and no other thread can acquire the lock of that handle.
C3_HandleMutualExclusion ==
  \A t \in DOMAIN th :
    th[t].pc = "embed" =>
      /\ handles[th[t].arc].holder = t
      /\ \A u \in DOMAIN th \ {t} :
           th[u].arc = th[t].arc =>
             /\ th[u].pc # "embed"
             /\ th[u].pc = "lock" => ~ENABLED (LockOk(u) \/ LockPoisoned(u))

\* a thread inside the encoder while another waits for the same handle's lock
C3_Witness ==
  \E t, u \in DOMAIN th :
    /\ t # u
    /\ th[t].pc = "embed"
    /\ th[u].pc = "lock"
    /\ th[u].arc = th[t].arc
    /\ th[t].fn = "batch"

\* C4: no two threads are inside encoder invocations for the same model
\* identifier of the same cache at the same time.
C4_ModelMutualExclusion ==
  \A t, u \in DOMAIN th :
    (t # u /\ th[t].pc = "embed" /\ th[u].pc = "embed" /\ CacheOf(th[t]) = CacheOf(th[u]))
      => th[t].model # th[u].model

\* thread t is at try_new and takes the step in which try_new fails
ConstructFails(t) == th[t].pc = "init" /\ th'[t] # th[t] /\ th'[t].arc = NoHandle

\* C5: a failed construction changes neither cache nor the handles (nothing
\* records the failure), its error, when it reaches the host, carries the
\* identifier, and the identifier stays absent while no construction of it has
\* succeeded, so that the next get_or_init misses and constructs again.
C5_FailedInitLeavesCache ==
  [][ \A t \in DOMAIN th :
        ConstructFails(t) =>
          /\ text_models' = text_models
          /\ image_models' = image_models
          /\ built' = built /\ handles' = handles
          /\ th'[t].pc = "done" =>
               th'[t].result = Err(InitFailedMsg(CacheOf(th[t])), th[t].model)
          /\ built[CacheOf(th[t])][th[t].model] = 0 =>
               (IF CacheOf(th[t]) = "image" THEN image_models'
                ELSE text_models')[th[t].model] = NoHandle ]_vars

\* a construction failed for an identifier that is still absent, while another
\* identifier is cached
C5_Witness ==
  \E t \in DOMAIN th :
    /\ th[t].pc = "done"
    /\ th[t].result = Err("Failed to init text model", "clip-ViT-B-32")
    /\ text_models["clip-ViT-B-32"] = NoHandle
    /\ text_models["bge-small-en-v1.5"] # NoHandle

\* thread t acquires a handle whose guard is poisoned
MeetsPoison(t) ==
  th[t].pc = "lock" /\ handles[th[t].arc].poisoned /\ th'[t] # th[t]

\* C6: a call that meets a poisoned guard performs no encoding on the handle and
\* returns an error to its caller.
C6_PoisonIsReported ==
  [][ \A t \in DOMAIN th :
        MeetsPoison(t) => (th'[t].pc = "done" /\ th'[t].result.tag = "Err") ]_vars

\* the encoder returned one embedding per submitted text
EncoderAnsweredAll(s) == Len(s.embeddings) = Len(s.texts)

\* C7: when the encoder has answered every text of a text mapping, the scatter sets
\* the target of record i to the embedding of record i's own source text exactly
\* when that source is a non-empty string, and leaves every other record as it was.
C7_BatchScatter ==
  [][ \A t \in DOMAIN th :
        (th[t].pc = "scatter" /\ th'[t] # th[t] /\ EncoderAnsweredAll(th[t])) =>
          LET s == th[t]
              m == s.mappings[s.mi]
              kind == handles[s.arc].kind
          IN  /\ Len(th'[t].records) = Len(s.records)
              /\ \A i \in 1..Len(s.records) :
                   LET src == Get(s.records[i], m.source)
                   IN  th'[t].records[i] =
                         IF src.k = "str" /\ src.s # << >>
                         THEN ObjInsert(s.records[i], m.target,
                                        JArr(Embedding(kind, src.s)))
                         ELSE s.records[i] ]_vars

\* a batch whose first record has an empty source and whose second record got
\* the vector of its own text
C7_Witness ==
  \E t \in DOMAIN th :
    /\ th[t].op = "vectorize_fields_batch" /\ th[t].pc = "map" /\ th[t].mi = 2
    /\ ~IsFallback(th[t].mappings[1])
    /\ Len(th[t].records) = 2
    /\ Get(th[t].arg[1], th[t].mappings[1].source) = JStr(StrEmpty)
    /\ Get(th[t].records[1], th[t].mappings[1].target).k = "absent"
    /\ Get(th[t].records[2], th[t].mappings[1].target).k = "arr"
    /\ Get(th[t].records[2], th[t].mappings[1].target).s
         = Get(th[t].arg[2], th[t].mappings[1].source).s

\* vectorize_fields skips the mapping on this record
Skips(rec, m) ==
  LET v == Get(rec, m.source)
  IN  v.k \in {"absent", "null"} \/ (m.field_type # "image" /\ v = JStr(StrEmpty))

\* vectorize_fields raises an input-shape or decode error for the mapping
ShapeError(rec, m) ==
  LET v == Get(rec, m.source)
  IN  /\ v.k \notin {"absent", "null"}
      /\ IF m.field_type = "image" THEN v.k # "str" \/ ~Base64Decode(v.s).ok
         ELSE v.k # "str"

\* the record after vectorize_fields has encoded the mapping's source
Written(rec, m) ==
  LET v == Get(rec, m.source)
  IN  ObjInsert(rec, m.target,
        JArr(IF m.field_type = "image"
             THEN Embedding(parse_image_model(m.model), Base64Decode(v.s).bytes)
             ELSE Embedding(parse_text_model(m.model), v.s)))

FieldsResult(rec, m) == IF Skips(rec, m) THEN rec ELSE Written(rec, m)

\* C8: after a batch call with one image mapping, every record that
\* vectorize_fields accepts is either untouched or holds what vectorize_fields
\* writes for it: the image embedding of the decoded bytes.
C8_FallbackAsFields ==
  \A t \in DOMAIN th :
    ( /\ th[t].op = "vectorize_fields_batch" /\ th[t].pc = "done"
      /\ th[t].result.tag = "Ok"
      /\ Len(th[t].mappings) = 1 /\ th[t].mappings[1].field_type = "image" ) =>
      \A i \in 1..Len(th[t].records) :
        ~ShapeError(th[t].arg[i], th[t].mappings[1]) =>
          th[t].records[i] \in {th[t].arg[i], FieldsResult(th[t].arg[i], th[t].mappings[1])}

\* C9: a vectorize_fields mapping whose source is absent or null, or the empty
\* string for a text mapping, only advances to the next mapping: no error, no
\* model lookup, construction or invocation, no write.
C9_SkipRule ==
  [][ \A t \in DOMAIN th :
        ( /\ th[t].op = "vectorize_fields" /\ th[t].pc = "map"
          /\ th[t].mi <= Len(th[t].mappings)
          /\ Skips(th[t].record, th[t].mappings[th[t].mi])
          /\ th'[t] # th[t] ) =>
          /\ th'[t] = [th[t] EXCEPT !.mi = @ + 1]
          /\ UNCHANGED <<text_models, image_models, built, handles>> ]_vars

\* an image mapping with a null source was passed over
C9_Witness ==
  \E t \in DOMAIN th :
    /\ th[t].op = "vectorize_fields" /\ th[t].pc = "map" /\ th[t].mi = 2
    /\ th[t].mappings[1].field_type = "image"
    /\ Get(th[t].arg[1], th[t].mappings[1].source) = JNull
    /\ th[t].record = th[t].arg[1]

\* the record after the first k mappings were skipped or written
RECURSIVE Applied(_, _, _)
Applied(rec, ms, k) ==
  IF k = 0 THEN rec ELSE FieldsResult(Applied(rec, ms, k - 1), ms[k])

ShapeMsgs ==
  {"Image field must be a base64 string", "Failed to decode base64 from",
   "Text field must be a string"}

\* C10: vectorize_fields works through the mappings in order: at mapping mi the
\* record holds exactly the writes of the mappings before it, none of which
\* raised an error; an error ends the call at the first mapping that raises one,
\* with that mapping's source named by an input-shape error, and only a call that
\* has passed every mapping returns the record.
C10_FailFast ==
  \A t \in DOMAIN th :
    th[t].op = "vectorize_fields" =>
      LET s == th[t]
          n == Len(s.mappings)
      IN  /\ s.mi \in 1..(n + 1)
          /\ s.record = Applied(s.arg[1], s.mappings, s.mi - 1)
          /\ \A j \in 1..(s.mi - 1) :
               ~ShapeError(Applied(s.arg[1], s.mappings, j - 1), s.mappings[j])
          /\ (s.pc = "done" /\ s.result.tag = "Err") =>
               /\ s.mi <= n
               /\ ~Skips(s.record, s.mappings[s.mi])
               /\ ShapeError(s.record, s.mappings[s.mi]) <=> s.result.msg \in ShapeMsgs
               /\ s.result.msg \in ShapeMsgs => s.result.about = s.mappings[s.mi].source
          /\ (s.pc = "done" /\ s.result.tag = "Ok") => s.mi = n + 1

\* the second mapping failed to decode its source after the first one had written
C10_Witness ==
  \E t \in DOMAIN th :
    /\ th[t].op = "vectorize_fields" /\ th[t].pc = "done" /\ th[t].mi = 2
    /\ Len(th[t].mappings) = 2
    /\ th[t].result = Err("Failed to decode base64 from", th[t].mappings[2].source)
    /\ th[t].record # th[t].arg[1]

\* C11: a text mapping of vectorize_fields_batch that meets a record whose
\* source exists with a wrong value type (not a string, not null) ends the call
\* with the input-shape error naming the source, as vectorize_fields does.
C11_WrongTypeSurfaced ==
  [][ \A t \in DOMAIN th :
        ( /\ th[t].op = "vectorize_fields_batch" /\ th[t].pc = "map"
          /\ th[t].mi <= Len(th[t].mappings)
          /\ ~IsFallback(th[t].mappings[th[t].mi])
          /\ \E i \in 1..Len(th[t].records) :
               ShapeError(th[t].records[i], th[t].mappings[th[t].mi])
          /\ th'[t] # th[t] ) =>
          /\ th'[t].pc = "done"
          /\ th'[t].result = Err("Text field must be a string",
                                 th[t].mappings[th[t].mi].source) ]_vars

\* the records a vectorize_fields / vectorize_fields_batch call works on
RecordsOf(s) == IF s.op = "vectorize_fields" THEN <<s.record>> ELSE s.records

\* the mapping list has a mapping with this target
IsTarget(s, f) == \E j \in 1..Len(s.mappings) : s.mappings[j].target = f

\* C12: no step of a vectorize_fields or vectorize_fields_batch call changes the
\* number or order of the records, a value that is no object, or any field
\* other than the target of the mapping at hand, which it sets to a vector; the
\* write of a produced vector replaces whatever the target held; and the records
\* a successful call returns differ from its arguments only in targets holding
\* vectors.
C12_Frame ==
  [][ \A t \in DOMAIN th :
        ( /\ th[t].op \in {"vectorize_fields", "vectorize_fields_batch"}
          /\ th[t].pc \notin {"idle", "done"} ) =>
          LET s == th[t]
              before == RecordsOf(s)
              after == RecordsOf(th'[t])
          IN  /\ Len(after) = Len(before)
              /\ \A i \in 1..Len(before) :
                   /\ IsObject(after[i]) <=> IsObject(before[i])
                   /\ ~IsObject(before[i]) => after[i] = before[i]
                   /\ \A f \in FieldNames :
                        Get(after[i], f) # Get(before[i], f) =>
                          /\ s.mi <= Len(s.mappings)
                          /\ f = s.mappings[s.mi].target
                          /\ Get(after[i], f).k = "arr"
              /\ ( /\ s.op = "vectorize_fields" /\ s.pc = "embed"
                   /\ th'[t].pc = "map" /\ IsObject(s.record) ) =>
                   Get(th'[t].record, s.mappings[s.mi].target).k = "arr"
              /\ (th'[t].pc = "done" /\ th'[t].result.tag = "Ok") =>
                   /\ Len(after) = Len(s.arg)
                   /\ \A i \in 1..Len(after) :
                        /\ ~IsObject(s.arg[i]) => after[i] = s.arg[i]
                        /\ \A f \in FieldNames :
                             Get(after[i], f) # Get(s.arg[i], f) =>
                               IsTarget(s, f) /\ Get(after[i], f).k = "arr" ]_vars

\* a successful vectorize_fields call replaced a preset target by a vector and
\* left the source as it was
C12_Witness ==
  \E t \in DOMAIN th :
    /\ th[t].op = "vectorize_fields" /\ th[t].pc = "done" /\ th[t].result.tag = "Ok"
    /\ Len(th[t].mappings) = 2
    /\ Get(th[t].arg[1], "v") = JNum(7)
    /\ Get(th[t].record, "v").k = "arr"
    /\ Get(th[t].record, "t") = Get(th[t].arg[1], "t")
    /\ Get(th[t].record, "t").k = "str"

\* thread t takes the step of on_ready that calls set
SetsDir(t) == th[t].pc = "set" /\ th'[t] # th[t]

\* C13: the first on_ready fixes the model directory to <root>/models; a later
\* one changes nothing and also returns Ok; no other step changes the
\* directory; and a construction reads the default path while the directory is
\* unset and the first configured path afterwards.
C13_SetOnce ==
  [][ /\ models_dir # "" => models_dir' = models_dir
      /\ \A t \in DOMAIN th :
           SetsDir(t) =>
             /\ th'[t].pc = "done" /\ th'[t].result.tag = "Ok"
             /\ models_dir = "" => models_dir' = PathJoin(th[t].arg[1], "models")
      /\ (\A t \in DOMAIN th : ~SetsDir(t)) => models_dir' = models_dir
      /\ \A h \in DOMAIN handles' \ DOMAIN handles :
           handles'[h].cache_dir = IF models_dir = "" THEN ".fastembed_cache"
                                   ELSE models_dir ]_vars

\* a second on_ready with another root has returned and the directory is still
\* the first one
C13_Witness ==
  \E t \in DOMAIN th :
    /\ th[t].op = "on_ready" /\ th[t].pc = "done" /\ th[t].result.tag = "Ok"
    /\ th[t].arg = <<"/srv/b">>
    /\ models_dir = "/srv/a/models"

\* C14: a cache lookup, a construction, an encoder call and a scatter can always
\* take their step, whatever the other threads are doing; a thread at
\* lock() can proceed exactly when no guard of the handle it targets is alive.
C14_Independence ==
  \A t \in DOMAIN th :
    /\ th[t].pc = "get" => ENABLED Lookup(t)
    /\ th[t].pc = "init" => (ENABLED ConstructOk(t)) /\ (ENABLED ConstructFail(t))
    /\ th[t].pc = "embed" => ENABLED Embed(t)
    /\ th[t].pc = "scatter" => ENABLED ScatterStep(t)
    /\ th[t].pc = "lock" =>
         ((ENABLED (LockOk(t) \/ LockPoisoned(t)))
            <=> handles[th[t].arc].holder = NoThread)

\* one thread is inside the encoder of one identifier while another thread is
\* about to lock the free handle of a different identifier
C14_Witness ==
  \E t, u \in DOMAIN th :
    /\ th[t].pc = "embed" /\ th[u].pc = "lock"
    /\ th[t].model # th[u].model
    /\ handles[th[u].arc].holder = NoThread

\* record i has a non-empty string under the source
HasText(records, i, source) ==
  Get(records[i], source).k = "str" /\ Get(records[i], source).s # << >>

\* texts lists, by increasing record index, exactly the records that have a
\* non-empty string source, each with that string
IsCollected(texts, records, source) ==
  /\ \A k \in 1..Len(texts) :
       /\ texts[k][1] \in 1..Len(records)
       /\ HasText(records, texts[k][1], source)
       /\ texts[k][2] = Get(records[texts[k][1]], source).s
  /\ \A k \in 1..(Len(texts) - 1) : texts[k][1] < texts[k + 1][1]
  /\ \A i \in 1..Len(records) :
       HasText(records, i, source) => \E k \in 1..Len(texts) : texts[k][1] = i

\* where a text mapping of vectorize_fields_batch may go from each position
BatchSuccessors(pc) ==
  IF pc = "get" THEN {"lock", "init", "done"}
  ELSE IF pc = "init" THEN {"lock", "done"}
  ELSE IF pc = "lock" THEN {"embed", "done"}
  ELSE IF pc = "embed" THEN {"scatter", "done"}
  ELSE {"map"}

\* C15: a text mapping of vectorize_fields_batch with no non-empty string source
\* only advances to the next mapping, touching no cache and no handle; otherwise
\* it looks the handle up once, locks it once and calls the encoder once, on
\* the texts of all records that have one, in increasing record order, and then
\* moves to the next mapping.
C15_BatchingStep ==
  [][ \A t \in DOMAIN th :
        (th[t].op = "vectorize_fields_batch" /\ th'[t] # th[t]) =>
          LET s == th[t]
              m == s.mappings[s.mi]
          IN  /\ ( /\ s.pc = "map" /\ s.mi <= Len(s.mappings) /\ ~IsFallback(m) ) =>
                   IF \E i \in 1..Len(s.records) : HasText(s.records, i, m.source)
                   THEN /\ th'[t].pc = "get" /\ th'[t].fn = "batch"
                        /\ th'[t].model = m.model
                        /\ th'[t].mi = s.mi
                        /\ IsCollected(th'[t].texts, s.records, m.source)
                   ELSE /\ th'[t] = [s EXCEPT !.mi = @ + 1]
                        /\ UNCHANGED <<text_models, image_models, built, handles>>
              /\ s.fn = "batch" =>
                   /\ th'[t].pc \in BatchSuccessors(s.pc)
                   /\ th'[t].pc \notin {"map", "done"} =>
                        /\ th'[t].fn = "batch" /\ th'[t].mi = s.mi
                        /\ th'[t].texts = s.texts /\ th'[t].model = s.model
                        /\ th'[t].records = s.records
                   /\ th'[t].pc = "map" => th'[t].mi = s.mi + 1
                   /\ th'[t].pc = "lock" => th'[t].arc[1] = "text"
                   /\ (s.pc = "embed" /\ th'[t].pc = "scatter") =>
                        th'[t].embeddings
                          \in {[k \in 1..Len(s.texts) |->
                                  Embedding(handles[s.arc].kind, s.texts[k][2])],
                               << >>} ]_vars

\* the first text mapping found no text and built nothing; the second one holds
\* the encoder's answer for the texts of both records
C15_Witness ==
  \E t \in DOMAIN th :
    /\ th[t].op = "vectorize_fields_batch" /\ th[t].pc = "scatter" /\ th[t].mi = 2
    /\ ~IsFallback(th[t].mappings[1])
    /\ built["text"]["bge-small-en-v1.5"] + built["text"]["clip-ViT-B-32"] = 1
    /\ Len(th[t].texts) = 2 /\ Len(th[t].embeddings) = 2
    /\ th[t].texts[1][2] # th[t].texts[2][2]

\* the text mappings among the first k that name the model
TextMappingsOf(s, n, k) ==
  { j \in 1..k : s.mappings[j].field_type \in {"text", ""} /\ s.mappings[j].model = n }

\* C16: within one vectorize_fields_batch call the batching step calls the
\* encoder at most once for a given model identifier.
C16_OneEncodePerModel ==
  \A t \in DOMAIN th :
    th[t].op = "vectorize_fields_batch" => \A n \in ModelNames : th[t].encodes[n] <= 1

\* C16, amended: within one vectorize_fields_batch call the batching step calls
\* the encoder at most once per text mapping, so for a given model identifier at
\* most as often as text mappings reached so far name it, and never for a
\* mapping that is no text mapping.
C16_OneEncodePerMapping ==
  \A t \in DOMAIN th :
    th[t].op = "vectorize_fields_batch" =>
      \A n \in ModelNames :
        th[t].encodes[n]
          <= Cardinality(TextMappingsOf(th[t], n, IF th[t].mi <= Len(th[t].mappings)
                                                  THEN th[t].mi
                                                  ELSE Len(th[t].mappings)))

\* two text mappings naming one model have each called the encoder
C16_Witness ==
  \E t \in DOMAIN th :
    /\ th[t].op = "vectorize_fields_batch" /\ th[t].pc = "done"
    /\ th[t].result.tag = "Ok"
    /\ Len(th[t].mappings) = 2
    /\ th[t].mappings[1] # th[t].mappings[2]
    /\ th[t].encodes["bge-small-en-v1.5"] = 2

\* C17: a locked handle is held by a thread that is inside the encoder call or
\* the scatter of a vectorization call on that very handle; a thread that is in
\* no call, or whose call has returned a value or an error, holds no lock.
C17_LockReleasedOnExit ==
  /\ \A h \in DOMAIN handles :
       handles[h].holder # NoThread =>
         /\ handles[h].holder \in DOMAIN th
         /\ th[handles[h].holder].pc \in {"embed", "scatter"}
         /\ th[handles[h].holder].arc = h
  /\ \A t \in DOMAIN th :
       th[t].pc \notin {"embed", "scatter"} =>
         \A h \in DOMAIN handles : handles[h].holder # t

\* a call has returned the encoder's error and the handle it had locked is free
C17_Witness ==
  \E t \in DOMAIN th :
    /\ th[t].pc = "done"
    /\ th[t].result.msg \in {"Text embedding failed", "Batch text embedding failed",
                             "Image embedding failed"}
    /\ DOMAIN handles # {}
    /\ \A h \in DOMAIN handles : handles[h].holder = NoThread /\ ~handles[h].poisoned

\* the cache after the step
CacheNext(c) == IF c = "image" THEN image_models' ELSE text_models'

\* C18: a cache that holds a handle for an identifier holds one for it after
\* every step (an insertion for the same key only replaces it), and a get_or_init
\* whose lookup finds the entry returns that handle without constructing and
\* without an error.
C18_EntriesPermanent ==
  [][ \A c \in Caches, n \in ModelNames :
        TheCache(c)[n] # NoHandle =>
          /\ CacheNext(c)[n] # NoHandle
          /\ CacheNext(c)[n] \in DOMAIN handles'
          /\ CacheNext(c)[n] # TheCache(c)[n] => built'[c][n] = built[c][n] + 1
          /\ \A t \in DOMAIN th :
               ( /\ th[t].pc = "get" /\ CacheOf(th[t]) = c /\ th[t].model = n
                 /\ th'[t] # th[t] ) =>
                 /\ th'[t].pc = "lock"
                 /\ th'[t].arc = TheCache(c)[n]
                 /\ UNCHANGED <<built, handles>> ]_vars

\* a vectorize_fields call found, by a hit, the one handle ever built for its
\* model, which the thread that built it still uses
C18_Witness ==
  \E t, u \in DOMAIN th :
    /\ t # u
    /\ th[t].arc # NoHandle /\ th[u].arc = th[t].arc
    /\ th[u].pc = "lock" /\ th[u].op = "vectorize_fields"
    /\ built[th[t].arc[1]][th[t].arc[2]] = 1
    /\ TheCache(th[t].arc[1])[th[t].arc[2]] = th[t].arc

\* the handles whose lock thread t holds
Held(t) == { h \in DOMAIN handles : handles[h].holder = t }

\* thread t is inside a call
Active(t) == th[t].pc \notin {"idle", "done"}

\* C19: a thread holds at most one handle lock, and none while it looks up,
\* constructs or inserts a handle or waits for a lock; and every call a thread
\* is in eventually returns (or unwinds, when its own encoder call panics).
C19_DeadlockFree ==
  /\ [](\A t \in DOMAIN th :
          /\ Cardinality(Held(t)) <= 1
          /\ th[t].pc \in {"get", "init", "lock", "set", "map", "rec"} => Held(t) = {})
  /\ \A t \in 1..NThreads : Active(t) ~> (th[t].pc = "done")

\* a thread waits for the lock of a handle whose holder is inside the encoder
\* call of a batch
C19_Witness ==
  \E t, u \in DOMAIN th :
    /\ th[t].pc = "lock" /\ handles[th[t].arc].holder = u
    /\ u # t /\ th[u].pc = "embed"
    /\ th[u].op = "vectorize_fields_batch" /\ th[t].op = "vectorize_fields_batch"

\* the call's mappings are all text mappings, none reads what an earlier one
\* writes, and every mapped source of every argument record is absent, null or
\* a string
TextOnly(s) ==
  /\ \A j \in 1..Len(s.mappings) : s.mappings[j].field_type \in {"text", ""}
  /\ \A j \in 1..Len(s.mappings) :
       \A k \in 1..(j - 1) : s.mappings[j].source # s.mappings[k].target
  /\ \A i \in 1..Len(s.arg) :
       \A j \in 1..Len(s.mappings) :
         Get(s.arg[i], s.mappings[j].source).k \in {"absent", "null", "str"}

\* each record is what vectorize_fields makes of the argument record with the
\* first k mappings
Agrees(s, k) ==
  /\ Len(s.records) = Len(s.arg)
  /\ \A i \in 1..Len(s.arg) : s.records[i] = Applied(s.arg[i], s.mappings, k)

\* C20: on text mappings that satisfy TextOnly, and with an encoder that answers
\* every text, vectorize_fields_batch keeps step with vectorize_fields: when the
\* records agree with the per-record results of the mappings before the current
\* one, they agree again once the current mapping is done, and the call returns
\* Ok with the per-record results of all mappings; a successful vectorize_fields
\* call returns that result for its record.
C20_BatchAsPerRecord ==
  [][ \A t \in DOMAIN th :
        /\ ( /\ th[t].op = "vectorize_fields_batch" /\ th'[t] # th[t]
             /\ th[t].pc \in {"map", "scatter"}
             /\ TextOnly(th[t]) /\ Agrees(th[t], th[t].mi - 1) ) =>
             /\ ( /\ th'[t].pc = "map"
                  /\ (th[t].pc = "map" \/ EncoderAnsweredAll(th[t])) ) =>
                  (th'[t].mi = th[t].mi + 1 /\ Agrees(th'[t], th[t].mi))
             /\ (th[t].pc = "map" /\ th[t].mi > Len(th[t].mappings)) =>
                  /\ th'[t].pc = "done" /\ th'[t].result.tag = "Ok"
                  /\ Agrees(th'[t], Len(th[t].mappings))
             /\ (th[t].pc = "map" /\ th[t].mi <= Len(th[t].mappings)) =>
                  th'[t].pc \in {"map", "get"}
        /\ ( /\ th[t].op = "vectorize_fields" /\ th'[t] # th[t]
             /\ th'[t].pc = "done" /\ th'[t].result.tag = "Ok"
             /\ th[t].pc = "map" ) =>
             th'[t].record = Applied(th[t].arg[1], th[t].mappings, Len(th[t].mappings))
    ]_vars

\* a batch of two records, one with a null source, went through two text
\* mappings with two encoder calls and returned the per-record results
C20_Witness ==
  \E t \in DOMAIN th :
    /\ th[t].op = "vectorize_fields_batch" /\ th[t].pc = "done"
    /\ th[t].result.tag = "Ok"
    /\ Len(th[t].mappings) = 2 /\ Len(th[t].arg) = 2
    /\ TextOnly(th[t]) /\ Agrees(th[t], 2)
    /\ th[t].encodes["bge-small-en-v1.5"] + th[t].encodes["clip-ViT-B-32"] = 2
    /\ Get(th[t].arg[1], "t") = JNull
    /\ th[t].records[2] # th[t].arg[2]

====
